---- MODULE Spec2Model ----
(***************************************************************************)
(* Model of the MariaDB / PHP-FPM curses monitor                           *)
(* (src/mariadb_monitor_rich.py, class MariaDBCursesMonitor).              *)
(*                                                                         *)
(* State: the monitor object's fields, the locals of run_curses that live  *)
(* across statements (stats, key, the wait-loop counter), the curses       *)
(* window (its size and what has been written since the last clear), the   *)
(* database connection opened by get_stats, and the position of the loop.  *)
(* Percentages are floats in the program; here they are exact fractions    *)
(* [n, d] compared by cross-multiplication.                                *)
(***************************************************************************)
EXTENDS Integers, Sequences, FiniteSets, TLC

VARIABLES
    pc,                  \* position of run_curses
    is_running,          \* self.is_running
    connection_history,  \* self.connection_history, a deque(maxlen=30)
    max_connections,     \* self.max_connections
    stats,               \* the value get_stats returned last (local of run_curses)
    key,                 \* the value getch returned last (local of run_curses)
    poll,                \* the index of the wait loop, for _ in range(50)
    conn_open,           \* TRUE while the connection made by get_stats is open
    screen,              \* what was written to stdscr since the last clear()
    refreshed,           \* TRUE when stdscr.refresh() followed the last write
    term,                \* stdscr.getmaxyx(): [h, w]
    exc,                 \* the exception the handler of run_curses caught last
    stop_reason,         \* why run_curses ended
    gs_result,           \* how the last get_stats call ended
    db_out,              \* what the database did in the last get_stats call
    php_out,             \* what the netstat pipeline did in the last call
    now,                 \* the clock: it ticks at every get_stats call
    db_log               \* every history entry get_stats has built, in order

vars == <<pc, is_running, connection_history, max_connections, stats, key, poll,
          conn_open, screen, refreshed, term, exc, stop_reason, gs_result,
          db_out, php_out, now, db_log>>

(***************************************************************************)
(* Bounds of the model.                                                    *)
(***************************************************************************)
MaxCycles == 2        \* get_stats calls explored from an initial state

(***************************************************************************)
(* Program constants.                                                      *)
(***************************************************************************)
maxlen == 30                     \* deque(maxlen=30)
max_php_fpm_connections == 150   \* self.max_php_fpm_connections
WaitPolls == 50                  \* for _ in range(50)
bar_width == 40                  \* bar_width = 40
NumReads == 7                    \* the cursor.execute calls of get_stats
NumIntReads == 5                 \* those whose row goes through int(row['Value'])
NoKey == -1                      \* getch() with no key waiting
KeyLowerQ == 113                 \* ord('q')
KeyUpperQ == 81                  \* ord('Q')
KeyOther == 120                  \* some other key, ord('x')
PhpError == -1                   \* return -1 # Indicate error
getch_timeout_ms == 100          \* stdscr.timeout(100)
sleep_ms == 100                  \* time.sleep(0.1)
error_pause_ms == 2000           \* time.sleep(2)

Keys == {NoKey, KeyLowerQ, KeyUpperQ, KeyOther}

(***************************************************************************)
(* The environment: terminal sizes, what the database server answers,      *)
(* how a database call can end, and how the netstat pipeline can end.      *)
(***************************************************************************)
Terminals == { [h |-> 40, w |-> 120], [h |-> 24, w |-> 80], [h |-> 4, w |-> 10] }

ServerList ==
    << [max_connections |-> 150, Threads_connected |-> 10, Threads_running |-> 1,
       Max_used_connections |-> 20, Aborted_connects |-> 0,
       processlist |-> << >>,
       users |-> << [User |-> 7, count |-> 10] >>],
      [max_connections |-> 150, Threads_connected |-> 140, Threads_running |-> 100,
       Max_used_connections |-> 145, Aborted_connects |-> 12,
       processlist |-> << [Time |-> 70], [Time |-> 5] >>,
       users |-> << [User |-> 7, count |-> 90], [User |-> 4, count |-> 50] >>],
      [max_connections |-> 0, Threads_connected |-> 0, Threads_running |-> 0,
       Max_used_connections |-> 0, Aborted_connects |-> 3,
       processlist |-> << >>,
       users |-> << >>] >>

ServerStates == {ServerList[i] : i \in DOMAIN ServerList}

\* connect_error: mysql.connector.connect raised mysql.connector.Error.
\* read_error at i: the i-th cursor.execute raised mysql.connector.Error.
\* read_raise at i: the i-th read raised something else (fetchone() gave
\*   None or a non-numeric Value: TypeError / ValueError).
\* ok: every read succeeded.
DbOutcomes ==
    {[kind |-> "connect_error", at |-> 0], [kind |-> "ok", at |-> 0]}
    \cup {[kind |-> "read_error", at |-> i] : i \in 1..NumReads}
    \cup {[kind |-> "read_raise", at |-> i] : i \in 1..NumIntReads}

NoDbOutcome == [kind |-> "none", at |-> 0]

\* lines: the pipeline printed n, the number of netstat lines with php-fpm.
\* netstat_missing: netstat is not installed or fails; stderr is dropped,
\*   grep reads nothing and wc -l prints 0; the shell's status is wc's, 0.
\* spawn_error: check_output raised CalledProcessError / FileNotFoundError,
\*   or int() raised ValueError on the output.
PhpOutcomes ==
    {[kind |-> "lines", n |-> n] : n \in {0, 3, 150}}
    \cup {[kind |-> "netstat_missing", n |-> 0], [kind |-> "spawn_error", n |-> 0]}

NoPhpOutcome == [kind |-> "none", n |-> 0]

(***************************************************************************)
(* Dictionaries.  A Python dict is a function on the set of its keys; None *)
(* is a value of its own.                                                  *)
(***************************************************************************)
EmptyDict == [k \in {} |-> 0]

None == [none |-> TRUE]

IsNone(s) == "none" \in DOMAIN s

Has(s, k) == k \in DOMAIN s

Update(f, g) == [k \in DOMAIN f \cup DOMAIN g |-> IF k \in DOMAIN g THEN g[k] ELSE f[k]]

\* `stats if stats else None`
OrNone(s) == IF DOMAIN s = {} THEN None ELSE s

DbKeys == {"max_connections", "current_connections", "threads_running",
           "max_used_connections", "aborted_connects", "active_processes",
           "user_connections", "usage_percentage", "timestamp"}

PhpKey == "php_fpm_connections"

(***************************************************************************)
(* Percentages: (current / maximum) * 100 as an exact fraction.            *)
(***************************************************************************)
\* Pct with the quotient rounded down to a whole number of per cent.
Pct_whole(current, maximum) ==
    IF maximum > 0 THEN [n |-> (current * 100) \div maximum, d |-> 1] ELSE [n |-> 0, d |-> 1]

Pct(current, maximum) ==
    IF maximum > 0 THEN [n |-> current * 100, d |-> maximum] ELSE [n |-> 0, d |-> 1]

PctLt(p, t) == p.n < t * p.d

(***************************************************************************)
(* get_php_fpm_connections                                                 *)
(***************************************************************************)
get_php_fpm_connections(o) ==
    CASE o.kind = "lines" -> o.n
      [] o.kind = "netstat_missing" -> 0
      [] OTHER -> PhpError

(***************************************************************************)
(* get_stats                                                               *)
(***************************************************************************)

\* deque_append without the eviction of the oldest entry.
deque_append_unbounded(h, e) == Append(h, e)

\* deque_append putting the entry at the left end, as appendleft does.
deque_append_front(h, e) ==
    IF Len(h) >= maxlen THEN << e >> \o SubSeq(h, 1, Len(h) - 1) ELSE << e >> \o h

\* collections.deque.append with maxlen: the oldest entry is dropped.
deque_append(h, e) ==
    IF Len(h) >= maxlen THEN Append(Tail(h), e) ELSE Append(h, e)

\* The tail of get_stats, on both of its paths: the process count is added
\* unless the source returned -1, and an empty dict is returned as None.
with_php(s, php_ret) ==
    OrNone(IF php_ret # PhpError THEN Update(s, [php_fpm_connections |-> php_ret]) ELSE s)

\* The dict built when every read succeeded.
db_stats(srv, t) ==
    [max_connections |-> srv.max_connections,
     current_connections |-> srv.Threads_connected,
     threads_running |-> srv.Threads_running,
     max_used_connections |-> srv.Max_used_connections,
     aborted_connects |-> srv.Aborted_connects,
     active_processes |-> srv.processlist,
     user_connections |-> srv.users,
     usage_percentage |-> Pct(srv.Threads_connected, srv.max_connections),
     timestamp |-> t]

history_entry(s) ==
    [timestamp |-> s.timestamp, connections |-> s.current_connections,
     usage |-> s.usage_percentage]


\* try_block filling the dict read by read, so that a failing read leaves
\* the fields of the reads before it.
try_block_partial(srv, o, hist, maxc, t) ==
    LET full == db_stats(srv, t)
        got == IF o.kind = "ok" THEN DOMAIN full
               ELSE IF o.at > 1 THEN {"max_connections"} ELSE {}
    IN  [stats |-> [k \in got |-> full[k]],
         hist |-> IF o.kind = "ok" THEN deque_append(hist, history_entry(full)) ELSE hist,
         maxc |-> IF o.kind = "ok" \/ o.at > 1 THEN srv.max_connections ELSE maxc,
         raised |-> (o.kind = "read_raise"),
         closed |-> TRUE]

\* try_block storing the history entry in the finally clause, whatever the
\* reads did.
try_block_always_stores(srv, o, hist, maxc, t) ==
    LET full == db_stats(srv, t)
    IN  [stats |-> IF o.kind = "ok" THEN Update(EmptyDict, full) ELSE EmptyDict,
         hist |-> deque_append(hist, history_entry(full)),
         maxc |-> IF o.kind = "ok" \/ o.at > 1 THEN srv.max_connections ELSE maxc,
         raised |-> (o.kind = "read_raise"),
         closed |-> TRUE]

\* try_block closing the connection at the end of the try body instead of
\* in a finally clause.
try_block_no_finally(srv, o, hist, maxc, t) ==
    LET full == db_stats(srv, t)
    IN  [stats |-> IF o.kind = "ok" THEN Update(EmptyDict, full) ELSE EmptyDict,
         hist |-> IF o.kind = "ok" THEN deque_append(hist, history_entry(full)) ELSE hist,
         maxc |-> IF o.kind = "ok" \/ o.at > 1 THEN srv.max_connections ELSE maxc,
         raised |-> (o.kind = "read_raise"),
         closed |-> (o.kind = "ok")]

\* The try block of get_stats against server state srv with outcome o:
\* the dict after the block, self.connection_history, self.max_connections
\* and whether an exception leaves the block (after the finally clause).
try_block(srv, o, hist, maxc, t) ==
    LET failed_at == IF o.kind = "ok" THEN NumReads + 1 ELSE o.at
        \* self.max_connections = int(max_conn['Value']) once read 1 is through
        maxc2 == IF failed_at > 1 THEN srv.max_connections ELSE maxc
        s == IF o.kind = "ok"
             THEN Update(EmptyDict, db_stats(srv, t))
             ELSE EmptyDict
    IN  [stats |-> s,
         hist |-> IF o.kind = "ok" THEN deque_append(hist, history_entry(s)) ELSE hist,
         maxc |-> maxc2,
         raised |-> (o.kind = "read_raise"),
         closed |-> TRUE]

(***************************************************************************)
(* The curses window.  A write is [sec, txt, y, x, n, guarded]: n cells    *)
(* written from row y, column x.  Strings are modelled by their lengths.   *)
(* addstr/addch raise curses.error when the position is outside the        *)
(* window or when the text runs into the bottom-right cell; a longer line  *)
(* wraps to the next row.  A guarded write is one the source wraps in      *)
(* try/except curses.error.  A call op is a call of a method by name.      *)
(***************************************************************************)
Write(sec, txt, y, x, n) ==
    [kind |-> "write", sec |-> sec, txt |-> txt, y |-> y, x |-> x, n |-> n,
     guarded |-> FALSE]

Guarded(op) == [op EXCEPT !.guarded = TRUE]

Call(name) ==
    [kind |-> "call", sec |-> name, txt |-> name, y |-> 0, x |-> 0, n |-> 0,
     guarded |-> FALSE]

Fits(op, h, w) ==
    /\ op.y >= 0 /\ op.y < h
    /\ op.x >= 0 /\ op.x < w
    /\ op.y * w + op.x + op.n < h * w

\* The methods the class defines that draw_dashboard calls by name.
Methods == {"draw_progress_bar", "draw_stats_table", "draw_process_table",
            "draw_user_connections", "draw_history_chart"}

RECURSIVE Digits(_)
Digits(n) == IF n < 10 THEN 1 ELSE 1 + Digits(n \div 10)

\* len(f"{n:,}")
CommaLen(n) == Digits(n) + (Digits(n) - 1) \div 3

\* len(f"{p:W.1f}") for a minimum width W
FloatLen(p, minw) ==
    LET k == Digits(p.n \div p.d) + 2 IN IF k > minw THEN k ELSE minw

Max2(a, b) == IF a > b THEN a ELSE b

Min2(a, b) == IF a < b THEN a ELSE b

(***************************************************************************)
(* draw_progress_bar                                                       *)
(***************************************************************************)
\* usage_tier with the first boundary put into the lower tier.
usage_tier_closed_low(p) ==
    CASE p.n <= 30 * p.d -> [status_en |-> "SAFE", color |-> "green", status_n |-> 9]
      [] PctLt(p, 50) -> [status_en |-> "GOOD", color |-> "green", status_n |-> 4]
      [] PctLt(p, 70) -> [status_en |-> "MODERATE", color |-> "yellow", status_n |-> 9]
      [] PctLt(p, 85) -> [status_en |-> "HIGH", color |-> "yellow", status_n |-> 5]
      [] PctLt(p, 95) -> [status_en |-> "CRITICAL", color |-> "red", status_n |-> 7]
      [] OTHER -> [status_en |-> "DANGER", color |-> "red", status_n |-> 10]

\* The tier of a percentage: English status, colour, length of the Thai status.
usage_tier(p) ==
    CASE PctLt(p, 30) -> [status_en |-> "SAFE", color |-> "green", status_n |-> 9]
      [] PctLt(p, 50) -> [status_en |-> "GOOD", color |-> "green", status_n |-> 4]
      [] PctLt(p, 70) -> [status_en |-> "MODERATE", color |-> "yellow", status_n |-> 9]
      [] PctLt(p, 85) -> [status_en |-> "HIGH", color |-> "yellow", status_n |-> 5]
      [] PctLt(p, 95) -> [status_en |-> "CRITICAL", color |-> "red", status_n |-> 7]
      [] OTHER -> [status_en |-> "DANGER", color |-> "red", status_n |-> 10]

status_en_len(t) ==
    CASE t.status_en \in {"SAFE", "GOOD", "HIGH"} -> 4
      [] t.status_en \in {"MODERATE", "CRITICAL"} -> 8
      [] OTHER -> 6

\* filled_width rounding up instead of truncating.
filled_width_ceiling(width, current, maximum) ==
    IF maximum > 0 THEN (width * current + maximum - 1) \div maximum ELSE 0

filled_width(width, current, maximum) ==
    IF maximum > 0 THEN (width * current) \div maximum ELSE 0

draw_progress_bar(sec, y, x, width, current, maximum, label_n) ==
    LET percentage == Pct(current, maximum)
        t == usage_tier(percentage)
        fw == filled_width(width, current, maximum)
        bar_y == y + 1
        info_n == 1 + FloatLen(percentage, 5) + 3 + CommaLen(current) + 1
                  + CommaLen(maximum) + 1
    IN  << Write(sec, "label", y, x, label_n + 1),
           Write(sec, t.status_en, y, x + 25, status_en_len(t) + 2),
           Write(sec, "[", bar_y, x, 1) >>
        \o [i \in 1..width |->
              Write(sec, IF i - 1 < fw THEN "filled" ELSE "empty", bar_y, x + i, 1)]
        \o << Write(sec, "]", bar_y, x + width + 1, 1),
              Write(sec, "info", bar_y, x + width + 3, info_n),
              Guarded(Write(sec, "status", bar_y + 1, x + 2, t.status_n)) >>

(***************************************************************************)
(* draw_stats_table                                                        *)
(***************************************************************************)
threads_tier(p) ==
    CASE PctLt(p, 30) -> [status |-> "LIGHT", color |-> "green", status_n |-> 5]
      [] PctLt(p, 60) -> [status |-> "NORMAL", color |-> "yellow", status_n |-> 6]
      [] OTHER -> [status |-> "HEAVY", color |-> "red", status_n |-> 6]

max_used_tier(p) ==
    CASE PctLt(p, 50) -> [status |-> "LOW", color |-> "green", status_n |-> 5]
      [] PctLt(p, 80) -> [status |-> "NORMAL", color |-> "yellow", status_n |-> 6]
      [] OTHER -> [status |-> "HIGH", color |-> "red", status_n |-> 5]

aborted_tier(n) ==
    CASE n = 0 -> [status |-> "EXCELLENT", color |-> "green", status_n |-> 8]
      [] n < 10 -> [status |-> "NORMAL", color |-> "yellow", status_n |-> 6]
      [] OTHER -> [status |-> "ABNORMAL", color |-> "red", status_n |-> 9]

\* The tier of the Current Connections row.  The row shows the Thai status
\* only; status names the tier by the English word draw_progress_bar pairs
\* with the same Thai status.
current_tier(p) ==
    CASE PctLt(p, 30) -> [status |-> "SAFE", color |-> "green", status_n |-> 9]
      [] PctLt(p, 50) -> [status |-> "GOOD", color |-> "green", status_n |-> 4]
      [] PctLt(p, 70) -> [status |-> "MODERATE", color |-> "yellow", status_n |-> 9]
      [] PctLt(p, 85) -> [status |-> "HIGH", color |-> "yellow", status_n |-> 5]
      [] PctLt(p, 95) -> [status |-> "CRITICAL", color |-> "red", status_n |-> 7]
      [] OTHER -> [status |-> "DANGER", color |-> "red", status_n |-> 9]

\* The Thai status of the Current Connections row (the last one has no "!").
current_status_n(p) == current_tier(p).status_n

stats_row(y, x, txt, value, status_n) ==
    << Write("stats_table", txt, y, x, 21),
       Write("stats_table", "value", y, x + 20, CommaLen(value)),
       Write("stats_table", "status", y, x + 30, 1 + status_n) >>

draw_stats_table(start_y, start_x, s) ==
    LET y == start_y + 2
        head == << Write("stats_table", "title", start_y, start_x, 20),
                   Write("stats_table", "rule", start_y + 1, start_x, 60) >>
    IN  IF ~Has(s, "current_connections")
        THEN head \o << Write("stats_table", "unavailable", y, start_x, 27) >>
        ELSE LET cur == s.current_connections
                 threads_ratio == IF cur > 0
                                  THEN Pct(s.threads_running, Max2(cur, 1))
                                  ELSE Pct(0, 1)
                 max_used_ratio == Pct(s.max_used_connections, s.max_connections)
             IN  head
                 \o stats_row(y, start_x, "current", cur,
                              current_status_n(s.usage_percentage))
                 \o stats_row(y + 1, start_x, "max", s.max_connections, 8)
                 \o stats_row(y + 2, start_x, "running", s.threads_running,
                              threads_tier(threads_ratio).status_n)
                 \o stats_row(y + 3, start_x, "max_used", s.max_used_connections,
                              max_used_tier(max_used_ratio).status_n)
                 \o stats_row(y + 4, start_x, "aborted", s.aborted_connects,
                              aborted_tier(s.aborted_connects).status_n)

\* The row draw_stats_table returns.
stats_table_end(start_y, s) ==
    IF ~Has(s, "current_connections") THEN start_y + 4 ELSE start_y + 8

(***************************************************************************)
(* draw_process_table, draw_user_connections                               *)
(***************************************************************************)
time_color(t) == IF t < 10 THEN "green" ELSE IF t < 60 THEN "yellow" ELSE "red"

process_row(y, x, proc) ==
    << Write("process_table", "user", y, x, 12),
       Write("process_table", "host", y, x + 12, 18),
       Write("process_table", "db", y, x + 30, 10),
       Write("process_table", "command", y, x + 40, 10),
       Write("process_table", time_color(proc.Time), y, x + 50, Digits(proc.Time) + 1) >>

RECURSIVE process_rows(_, _, _, _)
process_rows(y, x, procs, i) ==
    IF i > Len(procs) THEN << >>
    ELSE process_row(y, x, procs[i]) \o process_rows(y + 1, x, procs, i + 1)

\* processes[:6]
shown_processes(procs) == SubSeq(procs, 1, Min2(Len(procs), 6))

draw_process_table(start_y, start_x, procs) ==
    LET y == start_y + 3
    IN  << Write("process_table", "title", start_y, start_x, 18),
           Write("process_table", "rule", start_y + 1, start_x, 60),
           Write("process_table", "head_user", start_y + 2, start_x, 12),
           Write("process_table", "head_host", start_y + 2, start_x + 12, 18),
           Write("process_table", "head_db", start_y + 2, start_x + 30, 10),
           Write("process_table", "head_cmd", start_y + 2, start_x + 40, 10),
           Write("process_table", "head_time", start_y + 2, start_x + 50, 4) >>
        \o (IF Len(procs) = 0
            THEN << Write("process_table", "unavailable", y, start_x, 39) >>
            ELSE process_rows(y, start_x, shown_processes(procs), 1))

process_table_end(start_y, procs) ==
    IF Len(procs) = 0 THEN start_y + 4
    ELSE start_y + 3 + Len(shown_processes(procs)) + 1

count_color(c) == IF c < 10 THEN "green" ELSE IF c < 50 THEN "yellow" ELSE "red"

RECURSIVE user_rows(_, _, _, _)
user_rows(y, x, users, i) ==
    IF i > Len(users) THEN << >>
    ELSE << Write("user_table", "user", y, x, users[i].User + 1),
            Write("user_table", count_color(users[i].count), y, x + 15,
                  Digits(users[i].count)) >>
         \o user_rows(y + 1, x, users, i + 1)

draw_user_connections(start_y, start_x, users) ==
    << Write("user_table", "title", start_y, start_x, 21),
       Write("user_table", "rule", start_y + 1, start_x, 30) >>
    \o (IF Len(users) = 0
        THEN << Write("user_table", "unavailable", start_y + 2, start_x, 16) >>
        ELSE user_rows(start_y + 2, start_x, users, 1))

(***************************************************************************)
(* draw_history_chart                                                      *)
(***************************************************************************)
\* recent_history taking the oldest ten entries instead of the newest.
recent_history_oldest(hist) == SubSeq(hist, 1, Min2(10, Len(hist)))

\* list(self.connection_history)[-10:]
recent_history(hist) == SubSeq(hist, Max2(1, Len(hist) - 9), Len(hist))

RECURSIVE max_connections_of(_, _)
max_connections_of(entries, i) ==
    IF i > Len(entries) THEN 0
    ELSE Max2(entries[i].connections, max_connections_of(entries, i + 1))

history_bar_color(usage) ==
    IF PctLt(usage, 50) THEN "green" ELSE IF PctLt(usage, 80) THEN "yellow" ELSE "red"

\* int((connections / max_scale) * 20)
bar_length(connections, max_scale) == (connections * 20) \div max_scale

history_row(y, x, entry, max_scale) ==
    << Write("history_chart", "time", y, x, 9) >>
    \o [i \in 1..20 |->
          Write("history_chart",
                IF i - 1 < bar_length(entry.connections, max_scale)
                THEN history_bar_color(entry.usage) ELSE "empty",
                y, x + 8 + i, 1)]
    \o << Write("history_chart", "count", y, x + 30,
                1 + Max2(3, Digits(entry.connections)) + 2
                + FloatLen(entry.usage, 4) + 2) >>

RECURSIVE history_rows(_, _, _, _, _)
history_rows(y, x, entries, max_scale, i) ==
    IF i > Len(entries) THEN << >>
    ELSE history_row(y, x, entries[i], max_scale)
         \o history_rows(y + 1, x, entries, max_scale, i + 1)

draw_history_chart(start_y, start_x, hist) ==
    << Write("history_chart", "title", start_y, start_x, 20),
       Write("history_chart", "rule", start_y + 1, start_x, 40) >>
    \o (IF Len(hist) < 2
        THEN << Write("history_chart", "loading", start_y + 2, start_x, 18) >>
        ELSE LET recent == recent_history(hist)
                 max_scale == Max2(max_connections_of(recent, 1), 1)
             IN  history_rows(start_y + 2, start_x, recent, max_scale, 1))

(***************************************************************************)
(* draw_dashboard: the writes it issues, in order, for a terminal of h     *)
(* rows and w columns.                                                     *)
(***************************************************************************)
\* stats.get(k) for the two list-valued keys: a missing key draws as empty.
get_list(s, k) == IF Has(s, k) THEN s[k] ELSE << >>

no_data_frame(h, w) ==
    << Write("nodata", "cannot_fetch", h \div 2, w \div 2 - 15, 23),
       Write("nodata", "check_services", h \div 2 + 1, w \div 2 - 20, 30) >>

draw_dashboard(s, hist, h, w) ==
    IF IsNone(s) \/ DOMAIN s = {}
    THEN no_data_frame(h, w)
    ELSE
    LET has_db == Has(s, "current_connections")
        has_php == Has(s, PhpKey) /\ s[PhpKey] # -1
        y1 == IF has_db THEN 8 ELSE 4
        y2 == IF has_php THEN y1 + 4 ELSE y1
        left_col == 2
        right_col == w \div 2 + 2
        col_y_start == y2 + 1
        y_pos_left == stats_table_end(col_y_start, s)
        y_pos_right == process_table_end(col_y_start, get_list(s, "active_processes"))
    IN  << Write("title", "header", 0, (w - 38) \div 2, 38),
           Write("clock", "current_time", 1, (w - 19) \div 2, 19),
           Write("rule", "rule", 2, 0, w) >>
        \o (IF has_db
            THEN draw_progress_bar("gauge_db", 4, 5, bar_width, s.current_connections,
                                   s.max_connections, 19)
            ELSE << >>)
        \o (IF Has(s, "threads_running")
            THEN << Call("draw_program_bar") >>
            ELSE << >>)
        \o (IF has_php
            THEN draw_progress_bar("gauge_php", y1, 5, bar_width, s[PhpKey],
                                   max_php_fpm_connections, 19)
            ELSE << >>)
        \o draw_stats_table(col_y_start, left_col, s)
        \o draw_user_connections(y_pos_left + 1, left_col, get_list(s, "user_connections"))
        \o draw_process_table(col_y_start, right_col, get_list(s, "active_processes"))
        \o draw_history_chart(y_pos_right + 1, right_col, hist)
        \o << Guarded(Write("footer", "footer", h - 2, (w - 43) \div 2, 43)) >>

\* What one op does: a write outside the window raises unless it is
\* guarded; a call of a name the class does not define raises.
op_raises(op, h, w) ==
    IF op.kind = "call" THEN op.sec \notin Methods
    ELSE ~Fits(op, h, w) /\ ~op.guarded

op_draws(op, h, w) == op.kind = "write" /\ Fits(op, h, w)

\* What happens when the ops are issued one by one: the writes that reached
\* the window, and the exception that ended the frame, if any.
run_ops(ops, h, w) ==
    LET bad == {i \in DOMAIN ops : op_raises(ops[i], h, w)}
        stop == IF bad = {} THEN Len(ops) + 1
                ELSE CHOOSE i \in bad : \A j \in bad : i <= j
        done == SubSeq(ops, 1, stop - 1)
        fits(op) == op_draws(op, h, w)
    IN  [drawn |-> SelectSeq(done, fits),
         exc |-> IF bad = {} THEN "none"
                 ELSE IF ops[stop].kind = "call" THEN "AttributeError"
                 ELSE "curses.error"]

render(s, hist, h, w) == run_ops(draw_dashboard(s, hist, h, w), h, w)

sections(drawn) == {drawn[i].sec : i \in DOMAIN drawn}

(***************************************************************************)
(* run_curses                                                              *)
(***************************************************************************)
\* The quit test with the upper-case key forgotten.
IsQuit_lower_only(k) == k = KeyLowerQ

\* key == ord('q') or key == ord('Q')
IsQuit(k) == k = KeyLowerQ \/ k = KeyUpperQ

\* len(str(e)) for the exceptions of the model
exc_message_len(e) ==
    CASE e = "curses.error" -> 22      \* addwstr() returned ERR
      [] e = "AttributeError" -> 65    \* '...' object has no attribute '...'
      [] OTHER -> 38                   \* 'NoneType' object is not subscriptable

error_frame(e, h, w) ==
    LET n == 7 + exc_message_len(e)
    IN  Write("error_message", e, h \div 2, Max2(0, w \div 2 - n \div 2), n)

\* except Exception as e: the handler clears, writes the message, refreshes
\* and sleeps.  Its own write is not guarded: when it raises, the exception
\* leaves run_curses.
handle_exception(e) ==
    /\ exc' = e
    /\ IF Fits(error_frame(e, term.h, term.w), term.h, term.w)
       THEN /\ pc' = "except"
            /\ screen' = {"error_message"}
            /\ refreshed' = TRUE
            /\ stop_reason' = stop_reason
       ELSE /\ pc' = "stopped"
            /\ screen' = {}
            /\ refreshed' = FALSE
            /\ stop_reason' = "handler_error"

Init ==
    /\ pc = "while"
    /\ is_running = TRUE
    /\ connection_history = << >>
    /\ max_connections = 0
    /\ stats = None
    /\ key = NoKey
    /\ poll = 0
    /\ conn_open = FALSE
    /\ screen = {}
    /\ refreshed = FALSE
    /\ term \in Terminals
    /\ exc = "none"
    /\ stop_reason = "none"
    /\ gs_result = "none"
    /\ db_out = NoDbOutcome
    /\ php_out = NoPhpOutcome
    /\ now = 0
    /\ db_log = << >>

\* The loop entry without the quit test on the key it reads.
LoopEntry_no_quit_test ==
    /\ pc = "while"
    /\ IF ~is_running
       THEN /\ pc' = "stopped"
            /\ stop_reason' = "quit"
            /\ key' = key
       ELSE \E k \in Keys :
              /\ key' = k
              /\ pc' = "get_stats"
              /\ stop_reason' = stop_reason
    /\ UNCHANGED <<is_running, connection_history, max_connections, stats, poll,
                   conn_open, screen, refreshed, term, exc, gs_result, db_out,
                   php_out, now, db_log>>

\* while self.is_running: key = stdscr.getch(); if key is q or Q: break
LoopEntry ==
    /\ pc = "while"
    /\ IF ~is_running
       THEN /\ pc' = "stopped"
            /\ stop_reason' = "quit"
            /\ key' = key
       ELSE \E k \in Keys :
              /\ key' = k
              /\ IF IsQuit(k)
                 THEN pc' = "stopped" /\ stop_reason' = "quit"
                 ELSE pc' = "get_stats" /\ stop_reason' = stop_reason
    /\ UNCHANGED <<is_running, connection_history, max_connections, stats, poll,
                   conn_open, screen, refreshed, term, exc, gs_result, db_out,
                   php_out, now, db_log>>

\* get_stats up to the try block: conn = self.get_db_connection(); without a
\* connection only the process count is read and get_stats returns.
\* It is taken while the clock is below `limit`, with the pipeline ending in
\* one of `phps`.
GetDbConnectionOn(limit, phps) ==
    /\ pc = "get_stats"
    /\ now < limit
    /\ now' = now + 1
    /\ \/ \E p \in phps :
            /\ db_out' = [kind |-> "connect_error", at |-> 0]
            /\ php_out' = p
            /\ stats' = with_php(EmptyDict, get_php_fpm_connections(p))
            /\ gs_result' = "returned"
            /\ conn_open' = FALSE
            /\ pc' = "draw"
       \/ /\ db_out' = NoDbOutcome
          /\ php_out' = NoPhpOutcome
          /\ stats' = stats
          /\ gs_result' = "pending"
          /\ conn_open' = TRUE
          /\ pc' = "query"
    /\ UNCHANGED <<is_running, connection_history, max_connections, key, poll,
                   screen, refreshed, term, exc, stop_reason, db_log>>

GetDbConnection == GetDbConnectionOn(MaxCycles, PhpOutcomes)

\* The try/except/finally block of get_stats and what follows it, for the
\* server states, database outcomes and pipeline outcomes of `inputs`.
QueryOn(inputs) ==
    /\ pc = "query"
    /\ \E inp \in inputs :
         LET srv == inp.srv
             o == inp.o
             p == inp.p
             r == try_block(srv, o, connection_history, max_connections, now) IN
         /\ o.kind # "connect_error"
         /\ db_out' = o
         /\ connection_history' = r.hist
         /\ max_connections' = r.maxc
         /\ conn_open' = ~r.closed
         /\ db_log' = IF o.kind = "ok" THEN Append(db_log, history_entry(r.stats))
                      ELSE db_log
         /\ IF r.raised
            THEN /\ gs_result' = "raised"
                 /\ php_out' = NoPhpOutcome
                 /\ stats' = stats
                 /\ handle_exception("TypeError")
            ELSE /\ gs_result' = "returned"
                 /\ php_out' = p
                 /\ stats' = with_php(r.stats, get_php_fpm_connections(p))
                 /\ pc' = "draw"
                 /\ UNCHANGED <<screen, refreshed, exc, stop_reason>>
    /\ UNCHANGED <<is_running, key, poll, term, now>>

Query == QueryOn([srv : ServerStates, o : DbOutcomes, p : PhpOutcomes])

\* self.draw_dashboard(stdscr, stats)
DrawDashboard ==
    /\ pc = "draw"
    /\ LET r == render(stats, connection_history, term.h, term.w) IN
       IF r.exc = "none"
       THEN /\ screen' = sections(r.drawn)
            /\ refreshed' = TRUE
            /\ pc' = "wait"
            /\ poll' = 0
            /\ UNCHANGED <<exc, stop_reason>>
       ELSE /\ handle_exception(r.exc)
            /\ poll' = poll
    /\ UNCHANGED <<is_running, connection_history, max_connections, stats, key,
                   conn_open, term, gs_result, db_out, php_out, now, db_log>>

\* The time one turn of the wait loop takes when it is not the quit key that
\* getch returns: stdscr.timeout(100) makes getch block until a key comes,
\* for 100 ms at most (it replaces the nodelay(True) of the line before),
\* and time.sleep(0.1) follows.
poll_ms(k) == (IF k = NoKey THEN getch_timeout_ms ELSE 0) + sleep_ms

\* One turn of: for _ in range(50): key = getch(); quit? ; time.sleep(0.1)
WaitPoll ==
    /\ pc = "wait"
    /\ \E k \in Keys :
         /\ key' = k
         /\ IF IsQuit(k)
            THEN /\ is_running' = FALSE
                 /\ pc' = "while"
                 /\ poll' = poll
            ELSE /\ is_running' = is_running
                 /\ IF poll + 1 >= WaitPolls
                    THEN pc' = "while" /\ poll' = 0
                    ELSE pc' = "wait" /\ poll' = poll + 1
    /\ UNCHANGED <<connection_history, max_connections, stats, conn_open, screen,
                   refreshed, term, exc, stop_reason, gs_result, db_out, php_out,
                   now, db_log>>

\* The handler falling through to the wait loop after its pause.
ErrorPause_then_wait ==
    /\ pc = "except"
    /\ pc' = "wait"
    /\ UNCHANGED <<is_running, connection_history, max_connections, stats, key, poll,
                   conn_open, screen, refreshed, term, exc, stop_reason, gs_result,
                   db_out, php_out, now, db_log>>

\* The time from the end of a cycle to the key read at the next loop entry:
\* the pause of the handler after an error, the turns of the wait loop
\* (with no key pressed) after a frame.
gap_ms(at) == IF at = "except" THEN error_pause_ms ELSE WaitPolls * poll_ms(NoKey)

\* time.sleep(2) in the handler ends; the loop goes on.
ErrorPause ==
    /\ pc = "except"
    /\ pc' = "while"
    /\ UNCHANGED <<is_running, connection_history, max_connections, stats, key, poll,
                   conn_open, screen, refreshed, term, exc, stop_reason, gs_result,
                   db_out, php_out, now, db_log>>

\* Ctrl-C.  Inside the try of run_curses it is caught and breaks the loop
\* (the finally of get_stats closes the connection on the way); during the
\* sleep of the handler it leaves run_curses uncaught.
KeyboardInterrupt ==
    /\ \/ pc \in {"get_stats", "query", "draw", "wait"}
       \/ pc = "while" /\ is_running
       \/ pc = "except"
    /\ pc' = "stopped"
    /\ stop_reason' = IF pc = "except" THEN "interrupt_uncaught" ELSE "interrupt"
    /\ conn_open' = FALSE
    /\ gs_result' = IF pc = "query" THEN "interrupted" ELSE gs_result
    /\ \E srv \in ServerStates :
         max_connections' \in IF pc = "query"
                              THEN {max_connections, srv.max_connections}
                              ELSE {max_connections}
    /\ UNCHANGED <<is_running, connection_history, stats, key, poll, screen,
                   refreshed, term, exc, db_out, php_out, now, db_log>>

Next ==
    \/ LoopEntry
    \/ GetDbConnection
    \/ Query
    \/ DrawDashboard
    \/ WaitPoll
    \/ ErrorPause
    \/ KeyboardInterrupt

Spec == Init /\ [][Next]_vars

(***************************************************************************)
(* run and main: a fifth specification that starts before curses.wrapper   *)
(* has set the terminal up.  initscr (in the wrapper), start_color (in     *)
(* init_colors) and curs_set raise curses.error on a terminal that cannot  *)
(* do what they ask; they are called outside the try of run_curses, so     *)
(* the exception leaves run_curses and the wrapper.                        *)
(***************************************************************************)
StartupOutcomes == {"ok", "initscr_error", "start_color_error", "curs_set_error"}

Startup ==
    /\ pc = "start"
    /\ \E o \in StartupOutcomes :
         IF o = "ok"
         THEN pc' = "while" /\ stop_reason' = stop_reason
         ELSE pc' = "stopped" /\ stop_reason' = "init_error"
    /\ UNCHANGED <<is_running, connection_history, max_connections, stats, key, poll,
                   conn_open, screen, refreshed, term, exc, gs_result, db_out,
                   php_out, now, db_log>>

\* run returning 0 from its except clause too.
run_always_zero(reason) ==
    CASE reason \in {"quit", "interrupt"} -> [raised |-> FALSE, code |-> 0]
      [] reason \in {"init_error", "handler_error"} -> [raised |-> FALSE, code |-> 0]
      [] OTHER -> [raised |-> TRUE, code |-> 0]

\* run(): what it returns, given how run_curses ended.  A break leaves
\* run_curses normally; an Exception that left it is caught, printed and
\* turned into 1; a KeyboardInterrupt that left it is not an Exception and
\* leaves run as well.
run(reason) ==
    CASE reason \in {"quit", "interrupt"} -> [raised |-> FALSE, code |-> 0]
      [] reason \in {"init_error", "handler_error"} -> [raised |-> FALSE, code |-> 1]
      [] OTHER -> [raised |-> TRUE, code |-> 0]

\* sys.exit(main()): the exit code of the process.  An uncaught
\* KeyboardInterrupt ends the interpreter with the status of SIGINT.
main(reason) == IF run(reason).raised THEN 130 ELSE run(reason).code

InitRun ==
    /\ pc = "start"
    /\ is_running = TRUE
    /\ connection_history = << >>
    /\ max_connections = 0
    /\ stats = None
    /\ key = NoKey
    /\ poll = 0
    /\ conn_open = FALSE
    /\ screen = {}
    /\ refreshed = FALSE
    /\ term \in Terminals
    /\ exc = "none"
    /\ stop_reason = "none"
    /\ gs_result = "none"
    /\ db_out = NoDbOutcome
    /\ php_out = NoPhpOutcome
    /\ now = 0
    /\ db_log = << >>

NextRun ==
    \/ Startup
    \/ LoopEntry
    \/ GetDbConnection
    \/ Query
    \/ DrawDashboard
    \/ WaitPoll
    \/ ErrorPause
    \/ KeyboardInterrupt

SpecRun == InitRun /\ [][NextRun]_vars

(***************************************************************************)
(* A second specification for the history buffer: the monitor has already  *)
(* taken maxlen - 1 or maxlen successful samples, so that the next ones    *)
(* fill the deque and evict from it.  The entries of the past carry the    *)
(* clock values up to 0.                                                   *)
(***************************************************************************)
past_entry(i, n) ==
    history_entry(db_stats(ServerList[(i % Len(ServerList)) + 1], i - n))

past_history(n) == [i \in 1..n |-> past_entry(i, n)]

InitHist ==
    /\ pc = "while"
    /\ is_running = TRUE
    /\ \E n \in {maxlen - 1, maxlen} :
         /\ connection_history = past_history(n)
         /\ db_log = past_history(n)
    /\ max_connections = ServerList[1].max_connections
    /\ stats = None
    /\ key = NoKey
    /\ poll = 0
    /\ conn_open = FALSE
    /\ screen = {}
    /\ refreshed = FALSE
    /\ term \in Terminals
    /\ exc = "none"
    /\ stop_reason = "none"
    /\ gs_result = "none"
    /\ db_out = NoDbOutcome
    /\ php_out = NoPhpOutcome
    /\ now = 0

SpecHist == InitHist /\ [][Next]_vars

(***************************************************************************)
(* A third specification for what one sample and its frame give: the       *)
(* monitor takes one sample and draws it.  The inputs are drawn from       *)
(* families: connection counts against several maxima, process counts,     *)
(* process lists of 0..8 rows in descending time, and history buffers of   *)
(* 0..MaxHist earlier entries.                                             *)
(***************************************************************************)
MaxCount == 160       \* connection and process counts run over 0..MaxCount
MaxHist == 12         \* entries in the history buffer before the sample

max_processes == 8    \* LIMIT 8

FrameMaxima == {0, 20, 40, 150}

\* Elapsed times in descending order, as ORDER BY TIME DESC gives them.
ProcTimes == << 3600, 120, 60, 59, 10, 9, 1, 0 >>

ProcLists ==
    LET all == [i \in DOMAIN ProcTimes |-> [Time |-> ProcTimes[i]]]
    IN  {SubSeq(all, a, b) : a \in 1..max_processes, b \in 0..max_processes}

frame_server(c, m, procs) ==
    [max_connections |-> m, Threads_connected |-> c, Threads_running |-> c \div 2,
     Max_used_connections |-> c, Aborted_connects |-> 0,
     processlist |-> procs, users |-> << >>]

\* A server with c connections of which r are running, and a aborted connects.
pressure_server(c, r, a) ==
    [frame_server(c, 150, << >>) EXCEPT !.Threads_running = r, !.Aborted_connects = a]

PressureServers ==
    {pressure_server(c, r, a) : c \in {0, 10, 20}, r \in 0..20, a \in 0..12}

\* A history of n entries with no connection at all.
zero_history(n) == [i \in 1..n |-> history_entry(db_stats(ServerList[3], i - n))]

OkOutcome == [kind |-> "ok", at |-> 0]

ConnectError == [kind |-> "connect_error", at |-> 0]

\* What the database and the pipeline do in the sample, given the buffer
\* the monitor holds: on an empty buffer every count against every maximum,
\* every process list and every mix of running threads and aborted
\* connects; on any buffer one plain sample.
FrameInputs(hist) ==
    {[srv |-> ServerList[1], o |-> OkOutcome, p |-> [kind |-> "lines", n |-> 3]]}
    \cup IF hist # << >> THEN {}
         ELSE {[srv |-> frame_server(c, m, << >>), o |-> OkOutcome, p |-> p] :
                 c \in 0..MaxCount, m \in FrameMaxima,
                 p \in {[kind |-> "lines", n |-> 3], [kind |-> "spawn_error", n |-> 0]}}
              \cup {[srv |-> frame_server(10, 150, procs), o |-> OkOutcome,
                     p |-> [kind |-> "lines", n |-> 3]] : procs \in ProcLists}
              \cup {[srv |-> srv, o |-> OkOutcome, p |-> [kind |-> "lines", n |-> 3]] :
                      srv \in PressureServers}

FramePhpOutcomes == {[kind |-> "lines", n |-> n] : n \in 0..MaxCount}

\* The monitor is about to take a sample, with a buffer of earlier entries.
InitFrame ==
    /\ pc = "get_stats"
    /\ is_running = TRUE
    /\ connection_history \in {past_history(k) : k \in 0..MaxHist}
                               \cup {zero_history(k) : k \in 0..MaxHist}
    /\ db_log = connection_history
    /\ max_connections = 0
    /\ stats = None
    /\ key = NoKey
    /\ poll = 0
    /\ conn_open = FALSE
    /\ screen = {}
    /\ refreshed = FALSE
    /\ term \in Terminals
    /\ exc = "none"
    /\ stop_reason = "none"
    /\ gs_result = "none"
    /\ db_out = NoDbOutcome
    /\ php_out = NoPhpOutcome
    /\ now = 0

OneSample == GetDbConnectionOn(1, FramePhpOutcomes)

FrameQuery == QueryOn(FrameInputs(connection_history))

NextFrame ==
    \/ OneSample
    \/ FrameQuery
    \/ DrawDashboard
    \/ ErrorPause

SpecFrame == InitFrame /\ [][NextFrame]_vars

(***************************************************************************)
(* A fourth specification for a run against a scripted server: the         *)
(* database shows 10, then 50, then 140 connections of 150 at the first,   *)
(* second and third sample, and every read succeeds (the connect may       *)
(* still fail).                                                            *)
(***************************************************************************)
ScenarioConns == << 10, 50, 140 >>

ScenarioInputs(t) ==
    IF t \notin DOMAIN ScenarioConns THEN {}
    ELSE {[srv |-> frame_server(ScenarioConns[t], 150, << >>), o |-> OkOutcome, p |-> p] :
            p \in PhpOutcomes}

ScenarioSample == GetDbConnectionOn(Len(ScenarioConns), PhpOutcomes)

ScenarioQuery == QueryOn(ScenarioInputs(now))

NextScenario ==
    \/ LoopEntry
    \/ ScenarioSample
    \/ ScenarioQuery
    \/ DrawDashboard
    \/ WaitPoll
    \/ ErrorPause
    \/ KeyboardInterrupt

SpecScenario == Init /\ [][NextScenario]_vars

(***************************************************************************)
(* Vocabulary of the properties.                                           *)
(***************************************************************************)
QuitKeys == {KeyLowerQ, KeyUpperQ}

\* The database source failed: at connect or at a read, with a database error.
DbFailed == db_out.kind \in {"connect_error", "read_error"}

DbSucceeded == db_out.kind = "ok"

\* The process-count source handed a count to get_stats / signalled failure.
PhpSucceeded == php_out.kind # "none" /\ get_php_fpm_connections(php_out) # PhpError

PhpFailed == php_out.kind # "none" /\ get_php_fpm_connections(php_out) = PhpError

\* get_stats has returned and draw_dashboard has been run on what it returned.
FrameDone ==
    /\ gs_result = "returned"
    /\ \/ pc = "wait"
       \/ pc = "except"
       \/ pc = "stopped" /\ stop_reason = "handler_error"

\* The last n entries of a sequence.
LastN(q, n) == SubSeq(q, Len(q) - n + 1, Len(q))

(***************************************************************************)
(* Properties.                                                             *)
(***************************************************************************)

C2_FailedDbLeavesHistory ==
    [][ /\ (pc \in {"get_stats", "query"} /\ db_out'.kind # "ok")
            => connection_history' = connection_history
        /\ (pc \in {"get_stats", "query"} /\ pc' = "draw"
              /\ db_out'.kind \in {"connect_error", "read_error"}
              /\ get_php_fpm_connections(php_out') # PhpError)
            => /\ DOMAIN stats' = {PhpKey}
               /\ stats'[PhpKey] = get_php_fpm_connections(php_out') ]_vars

\* C2 witness: the database failed at a read after an earlier sample had
\* been stored, and the process count is in the snapshot.
C2_Witness ==
    /\ pc = "draw"
    /\ db_out.kind = "read_error"
    /\ PhpSucceeded
    /\ Len(connection_history) = 1
    /\ now = 2

\* C3: when both sources fail, get_stats returns None and the frame drawn
\* for it is the no-data message alone, refreshed, with the loop going on
\* to its wait phase.
C3_BothFailNoDataFrame ==
    (FrameDone /\ DbFailed /\ PhpFailed) =>
        /\ IsNone(stats)
        /\ screen = {"nodata"}
        /\ refreshed
        /\ pc = "wait"

\* C4: the history buffer never holds more than 30 entries and is exactly
\* the last min(30, k) of the k entries built by the successful database
\* samples so far, in the order they were built.
C4_HistoryIsRecentLog ==
    /\ Len(connection_history) <= maxlen
    /\ connection_history = LastN(db_log, Min2(maxlen, Len(db_log)))

\* C4 witness: more than 30 successful samples, the last cycle a failed one.
C4_Witness ==
    /\ Len(db_log) = maxlen + 1
    /\ Len(connection_history) = maxlen
    /\ connection_history[1] # db_log[1]
    /\ gs_result = "returned"
    /\ DbFailed

\* C5: an exception of sampling or rendering never ends the loop: the loop
\* stops only by the quit key or by an interrupt.
C5_LoopSurvivesCycleErrors ==
    pc = "stopped" => stop_reason \in {"quit", "interrupt", "interrupt_uncaught"}

\* C6: a quit key read by a poll of the wait phase ends the loop at that
\* poll: the wait counter does not advance, and the loop stops without
\* another key read, sample or frame.
C6_QuitDuringWait ==
    [][ /\ (pc = "wait" /\ key' \in QuitKeys)
            => /\ pc' = "while" /\ ~is_running'
               /\ UNCHANGED <<poll, now, stats, screen, connection_history>>
        /\ (pc = "while" /\ ~is_running)
            => /\ pc' = "stopped" /\ stop_reason' = "quit"
               /\ UNCHANGED <<poll, now, stats, screen, connection_history, key>>
      ]_vars

\* C6 witness: the loop stopped on an upper-case Q read in the middle of the wait.
C6_Witness ==
    /\ pc = "stopped"
    /\ stop_reason = "quit"
    /\ ~is_running
    /\ key = KeyUpperQ
    /\ poll = 7

\* C7: the quit key acts only at the loop-entry check and at the polls of
\* the wait phase.  A quit key read at loop entry stops the loop before the
\* sample and the frame of that iteration; no step of a sample or a frame
\* reads a key or stops the loop for the quit key.
C7_QuitOnlyAtCheckPoints ==
    [][ /\ (pc = "while" /\ is_running /\ key' \in QuitKeys)
            => /\ pc' = "stopped" /\ stop_reason' = "quit"
               /\ UNCHANGED <<now, stats, screen, connection_history>>
        /\ (stop_reason' = "quit" /\ stop_reason # "quit") => pc = "while"
        /\ (is_running /\ ~is_running') => pc = "wait"
        /\ pc \in {"get_stats", "query", "draw"}
            => /\ key' = key
               /\ is_running' = is_running
               /\ stop_reason' # "quit"
               /\ pc' \in {"query", "draw", "wait", "except", "stopped"}
      ]_vars

\* C7 witness: a quit key read at loop entry, after a cycle that took the
\* error path, stopped the loop with one sample taken.
C7_Witness ==
    /\ pc = "stopped"
    /\ stop_reason = "quit"
    /\ is_running
    /\ key = KeyLowerQ
    /\ now = 1
    /\ exc # "none"

\* C8: the connection get_stats opens is open only inside its try block: it
\* is closed when get_stats has returned or raised, and in every state of
\* the loop outside get_stats.
C8_ConnectionClosed ==
    /\ conn_open => (pc = "query" /\ gs_result = "pending")
    /\ pc \in {"while", "draw", "wait", "except", "stopped"} => ~conn_open

\* C8 witness: a read raised an unexpected exception, get_stats raised and
\* the handler of the loop is pausing.
C8_Witness ==
    /\ gs_result = "raised"
    /\ db_out.kind = "read_raise"
    /\ pc = "except"
    /\ ~conn_open

\* C9: a count of 0 is a count: it is in the snapshot and the process-count
\* gauge is drawn for it; a failed source (netstat unavailable, the command
\* failing, output that is not a number) leaves no count in the snapshot.
C9_ZeroIsNotFailure ==
    FrameDone =>
        /\ (php_out = [kind |-> "lines", n |-> 0])
            => /\ Has(stats, PhpKey) /\ stats[PhpKey] = 0
               /\ "gauge_php" \in screen
        /\ php_out.kind \in {"netstat_missing", "spawn_error"} => ~Has(stats, PhpKey)

\* C10: a write outside the window never becomes the exception of a frame:
\* the handler of the loop never sees curses.error and the loop never ends
\* for it.
C10_OutOfBoundsAbsorbed ==
    /\ exc # "curses.error"
    /\ stop_reason # "handler_error"

\* The sections that show database data / the process count, and what a
\* section looks like when it stands for missing data.
DbSections == {"gauge_db", "stats_table", "user_table", "process_table", "history_chart"}

PhpSections == {"gauge_php"}

Furniture == {"title", "rule", "head_user", "head_host", "head_db", "head_cmd",
              "head_time"}

Markers == {"unavailable", "loading"}

MarkedUnavailable(drawn, sec) ==
    /\ \E i \in DOMAIN drawn : drawn[i].sec = sec /\ drawn[i].txt \in Markers
    /\ \A i \in DOMAIN drawn :
         drawn[i].sec = sec => drawn[i].txt \in Furniture \cup Markers

\* C11: in a frame for a partial snapshot (exactly one source failed), every
\* section whose data is missing is on the screen with an unavailable
\* marker and with nothing else but its title, rule and column heads: no
\* row, bar or gauge made of older or zero values.
C11_MissingSectionsMarked ==
    (FrameDone /\ ((DbFailed /\ PhpSucceeded) \/ (DbSucceeded /\ PhpFailed))) =>
        LET drawn == render(stats, connection_history, term.h, term.w).drawn IN
        /\ pc = "wait"
        /\ DbFailed => \A sec \in DbSections : MarkedUnavailable(drawn, sec)
        /\ PhpFailed => \A sec \in PhpSections : MarkedUnavailable(drawn, sec)

\* The half-open partition of the percentages into tiers; hi = -1: no upper end.
Partition ==
    { [name |-> "SAFE", lo |-> 0, hi |-> 30],
      [name |-> "GOOD", lo |-> 30, hi |-> 50],
      [name |-> "MODERATE", lo |-> 50, hi |-> 70],
      [name |-> "HIGH", lo |-> 70, hi |-> 85],
      [name |-> "CRITICAL", lo |-> 85, hi |-> 95],
      [name |-> "DANGER", lo |-> 95, hi |-> -1] }

\* lo <= p < hi for the percentage p = n / d
InTier(p, t) == t.lo * p.d <= p.n /\ (t.hi = -1 \/ p.n < t.hi * p.d)

\* The tier a gauge writes next to its label: the second write of draw_progress_bar.
GaugeStatus(ops, sec) ==
    LET of_sec(op) == op.sec = sec IN SelectSeq(ops, of_sec)[2].txt

\* C12: the tier the DB-connection gauge and the process-count gauge write,
\* and the tier of the Current Connections row, is for every percentage the
\* one tier of the partition whose half-open interval holds the percentage:
\* a boundary value is in the upper tier and everything from 95 up,
\* beyond 100 too, is DANGER.
C12_UsageTierPartition ==
    LET ops == draw_dashboard(stats, connection_history, term.h, term.w)
        php_pct == [n |-> stats[PhpKey] * 100, d |-> max_php_fpm_connections]
    IN  /\ Has(stats, "current_connections") =>
              \A t \in Partition :
                 /\ GaugeStatus(ops, "gauge_db") = t.name
                       <=> InTier(stats.usage_percentage, t)
                 /\ current_tier(stats.usage_percentage).status = t.name
                       <=> InTier(stats.usage_percentage, t)
        /\ Has(stats, PhpKey) =>
              \A t \in Partition :
                 GaugeStatus(ops, "gauge_php") = t.name <=> InTier(php_pct, t)

\* C12 witness: the process-count gauge is on the screen for 45 of 150,
\* exactly 30 per cent.
C12_Witness ==
    /\ pc = "wait"
    /\ "gauge_php" \in screen
    /\ Has(stats, PhpKey)
    /\ stats[PhpKey] = 45

\* C14: in the snapshot of a successful database sample the usage
\* percentage is current connections / max connections * 100 when max
\* connections is positive and 0 when it is 0 (a number in both cases: 75
\* of 150 is exactly 50), and the history entry stored in that call carries
\* the same percentage.
C14_UsagePercentage ==
    (gs_result = "returned" /\ DbSucceeded) =>
        LET u == stats.usage_percentage
            cur == stats.current_connections
            mx == stats.max_connections
        IN  /\ u.d > 0
            /\ mx > 0 => u.n * mx = cur * 100 * u.d
            /\ mx = 0 => u.n = 0
            /\ (cur = 75 /\ mx = 150) => u.n = 50 * u.d
            /\ Len(connection_history) > 0
            /\ connection_history[Len(connection_history)].usage = u
            /\ connection_history[Len(connection_history)].connections = cur
            /\ connection_history[Len(connection_history)].timestamp = stats.timestamp

\* C14 witness: a sample of 75 connections of 150 has been taken and drawn.
C14_Witness ==
    /\ gs_result = "returned"
    /\ DbSucceeded
    /\ pc = "except"
    /\ stats.current_connections = 75
    /\ stats.max_connections = 150
    /\ connection_history[Len(connection_history)].usage.n
         = 50 * connection_history[Len(connection_history)].usage.d

\* Bar widths the gauge routine is tried with, the one of the dashboard included.
Widths == {0, 1, 7, bar_width}

\* The writes of a gauge at row y, column x are: "[" at column x of the bar
\* row, W cells at the columns x+1 .. x+W of which the first `want` are
\* filled and the others empty, and "]" at column x+W+1.
GaugeIs(ops, y, x, W, want) ==
    LET is_cell(op) == op.txt \in {"filled", "empty"}
        is_bracket(op) == op.txt \in {"[", "]"}
        cells == SelectSeq(ops, is_cell)
        brackets == SelectSeq(ops, is_bracket)
    IN  /\ Len(cells) = W
        /\ \A i \in 1..W :
             /\ cells[i].y = y + 1 /\ cells[i].x = x + i /\ cells[i].n = 1
             /\ cells[i].txt = IF i <= want THEN "filled" ELSE "empty"
        /\ Len(brackets) = 2
        /\ brackets[1].txt = "[" /\ brackets[1].y = y + 1 /\ brackets[1].x = x
        /\ brackets[2].txt = "]" /\ brackets[2].y = y + 1 /\ brackets[2].x = x + W + 1

\* (W * current) / maximum truncated and capped at W; 0 for maximum = 0
WantFilled(W, current, maximum) ==
    IF maximum > 0
    THEN IF (W * current) \div maximum > W THEN W ELSE (W * current) \div maximum
    ELSE 0

\* C15: for the counts of every snapshot and every bar width W, the gauge
\* routine writes exactly W bar cells between its brackets, the first
\* trunc((W * current) / maximum) of them filled, all W when that exceeds W,
\* and none when maximum is 0; the gauges of the dashboard are such gauges
\* of width 40.
C15_GaugeFill ==
    LET gauge_ok(current, maximum) ==
            \A W \in Widths :
               GaugeIs(draw_progress_bar("gauge", 4, 5, W, current, maximum, 19),
                       4, 5, W, WantFilled(W, current, maximum))
        ops == draw_dashboard(stats, connection_history, term.h, term.w)
        of_db(op) == op.sec = "gauge_db"
        of_php(op) == op.sec = "gauge_php"
    IN  /\ Has(stats, "current_connections") =>
              /\ gauge_ok(stats.current_connections, stats.max_connections)
              /\ GaugeIs(SelectSeq(ops, of_db), 4, 5, bar_width,
                         WantFilled(bar_width, stats.current_connections,
                                    stats.max_connections))
        /\ Has(stats, PhpKey) =>
              /\ gauge_ok(stats[PhpKey], max_php_fpm_connections)
              /\ GaugeIs(SelectSeq(ops, of_php),
                         IF Has(stats, "current_connections") THEN 8 ELSE 4, 5,
                         bar_width,
                         WantFilled(bar_width, stats[PhpKey], max_php_fpm_connections))

\* C15 witness: the process-count gauge is on the screen for a count above
\* its maximum.
C15_Witness ==
    /\ pc = "wait"
    /\ "gauge_php" \in screen
    /\ Has(stats, PhpKey)
    /\ stats[PhpKey] > max_php_fpm_connections

\* The connection counts of the entries of a history, in order.
ConnectionsOf(h) == [i \in DOMAIN h |-> h[i].connections]

\* The scripted run gives the tiers `tiers`: the DB gauge written for the
\* i-th sample carries tiers[i], and after three successful samples the
\* history buffer holds the three counts in the order of the samples.
ScenarioGives(tiers) ==
    /\ (gs_result = "returned" /\ DbSucceeded) =>
          /\ stats.current_connections = ScenarioConns[now]
          /\ GaugeStatus(draw_dashboard(stats, connection_history, term.h, term.w),
                         "gauge_db") = tiers[now]
    /\ Len(db_log) = Len(ScenarioConns) =>
          ConnectionsOf(connection_history) = ScenarioConns

\* C13 as stated: samples of 10, 50 and 140 connections of 150 give the
\* tiers SAFE, MODERATE and DANGER and a history of 10, 50, 140.
C13_ScenarioTiers == ScenarioGives(<< "SAFE", "MODERATE", "DANGER" >>)

\* C13 amended: samples of 10, 50 and 140 connections of 150 (6.7, 33.3 and
\* 93.3 per cent) give the tiers SAFE, GOOD and CRITICAL and a history of
\* exactly the three entries 10, 50, 140 in that order.
C13_ScenarioTiersAmended == ScenarioGives(<< "SAFE", "GOOD", "CRITICAL" >>)

\* C13 witness: the third sample has succeeded and its frame was attempted.
C13_Witness ==
    /\ now = Len(ScenarioConns)
    /\ DbSucceeded
    /\ pc = "except"
    /\ Len(connection_history) = Len(ScenarioConns)
    /\ stats.current_connections = 140

\* C16: when the loop has ended through the quit key, run returns 0 and the
\* process exits with 0; when the terminal set-up failed at startup, run
\* returns a code other than 0 and so does the process.
C16_ExitCodes ==
    pc = "stopped" =>
        /\ stop_reason = "quit" =>
              /\ ~run(stop_reason).raised
              /\ run(stop_reason).code = 0
              /\ main(stop_reason) = 0
        /\ stop_reason = "init_error" =>
              /\ ~run(stop_reason).raised
              /\ run(stop_reason).code # 0
              /\ main(stop_reason) # 0

\* C16 witness: the set-up failed before any key was read or sample taken.
C16_Witness ==
    /\ pc = "stopped"
    /\ stop_reason = "init_error"
    /\ now = 0
    /\ main(stop_reason) = 1

\* The other case of C16: the loop ran, two samples were taken, and a quit
\* key read in the wait phase ended it with exit code 0.
C16_QuitWitness ==
    /\ pc = "stopped"
    /\ stop_reason = "quit"
    /\ ~is_running
    /\ now = 2
    /\ main(stop_reason) = 0

\* C17: the frame of every snapshot with DbStats is drawn in full: the DB
\* gauge, the thread-running gauge, both columns and the footer are on the
\* screen, refreshed, and the cycle is in its wait phase, not in the
\* handler.
C17_ThreadGaugeDrawn ==
    (FrameDone /\ Has(stats, "current_connections")) =>
        /\ pc = "wait"
        /\ refreshed
        /\ {"gauge_db", "gauge_threads", "stats_table", "user_table",
            "process_table", "history_chart", "footer"} \subseteq screen

\* The exception that ends the frames of C17 on a terminal large enough for
\* every write: the call of a method the class does not have.
C17_LargeTerminalRaises ==
    /\ FrameDone
    /\ Has(stats, "current_connections")
    /\ term = [h |-> 40, w |-> 120]
    /\ pc = "except"
    /\ exc = "AttributeError"
    /\ screen = {"error_message"}

\* C18: with no key pressed, a turn of the wait loop takes 100 ms, the time
\* blocked in the key poll included, and the turns of a wait phase add up
\* to 5 seconds.
C18_WaitIsFiveSeconds ==
    [][ (pc = "wait" /\ key' = NoKey) =>
            /\ poll_ms(key') = 100
            /\ WaitPolls * poll_ms(key') = 5000 ]_vars

\* The elapsed-time cells among some writes, in the order they were written.
TimeCells(ops) ==
    LET is_time(op) == op.sec = "process_table" /\ op.txt \in {"green", "yellow", "red"}
    IN  SelectSeq(ops, is_time)

\* The time cells are those of the rows `procs`, one row below the other in
\* that order, green below 10 s, yellow below 60 s, red otherwise.
RowsShown(cells, procs) ==
    /\ Len(cells) = Len(procs)
    /\ \A i \in DOMAIN procs :
         /\ cells[i].txt = (IF procs[i].Time < 10 THEN "green"
                            ELSE IF procs[i].Time < 60 THEN "yellow" ELSE "red")
         /\ cells[i].y = cells[1].y + i - 1

\* C19: in the frame of a snapshot whose process list has n rows, 0..8 of
\* them, the process table on the screen has all n rows in the order of
\* the list, each elapsed time in its colour.
C19_AllProcessRows ==
    (FrameDone /\ Has(stats, "active_processes")) =>
        RowsShown(TimeCells(render(stats, connection_history, term.h, term.w).drawn),
                  stats.active_processes)

\* What draw_process_table writes when it is called: the first six rows of
\* the list at most.
C19_RoutineShowsSix ==
    Has(stats, "active_processes") =>
        RowsShown(TimeCells(draw_process_table(9, 62, stats.active_processes)),
                  SubSeq(stats.active_processes, 1, Min2(6, Len(stats.active_processes))))

\* The bar cells of the history chart among some writes, in order.
BarCells(ops) ==
    LET is_bar(op) == op.sec = "history_chart"
                      /\ op.txt \in {"green", "yellow", "red", "empty"}
    IN  SelectSeq(ops, is_bar)

\* The writes are a chart of one bar row per entry of `entries`, in order,
\* one row below the other: 20 cells per row, of which the first
\* connections * 20 / scale (truncated) are filled, where scale is the
\* largest connection count of the entries and at least 1.
BarRows(ops, entries) ==
    LET cells == BarCells(ops)
        counts == {1} \cup {entries[i].connections : i \in DOMAIN entries}
        scale == CHOOSE m \in counts : \A k \in counts : m >= k
    IN  /\ Len(cells) = 20 * Len(entries)
        /\ \A i \in DOMAIN entries : \A j \in 1..20 :
             LET c == cells[20 * (i - 1) + j] IN
             /\ c.y = cells[1].y + i - 1
             /\ c.x = cells[1].x + j - 1
             /\ (c.txt # "empty") <=> (j <= (entries[i].connections * 20) \div scale)

\* The chart draw_dashboard writes for the buffer is the chart of the last
\* min(10, length) entries when the buffer has at least `least` entries,
\* and the loading line without any bar otherwise.
ChartShows(least) ==
    LET ops == draw_dashboard(stats, connection_history, term.h, term.w)
        h == connection_history
        is_loading(op) == op.sec = "history_chart" /\ op.txt = "loading"
    IN  IF Len(h) >= least
        THEN /\ BarRows(ops, LastN(h, IF Len(h) < 10 THEN Len(h) ELSE 10))
             /\ Len(SelectSeq(ops, is_loading)) = 0
        ELSE /\ BarCells(ops) = << >>
             /\ Len(SelectSeq(ops, is_loading)) = 1

\* C20 as stated: whatever the buffer holds, the frame's history chart has
\* one bar row per entry of the last min(10, length) entries, in order,
\* scaled to their largest count (at least 1), and drawing the frame leaves
\* the buffer as it was.
C20_ChartOfRecent ==
    [][ (pc = "draw" /\ ~IsNone(stats)) =>
            /\ ChartShows(1)
            /\ connection_history' = connection_history ]_vars

\* C20 amended: when the buffer holds at least two entries the frame's
\* history chart has one bar row per entry of the last min(10, length)
\* entries, in order, scaled to their largest count (at least 1); with
\* fewer than two entries it has the line "Loading history..." and no bar;
\* drawing the frame leaves the buffer as it was.
C20_ChartOfRecentAmended ==
    [][ (pc = "draw" /\ ~IsNone(stats)) =>
            /\ ChartShows(2)
            /\ connection_history' = connection_history ]_vars

\* C20 witness: a chart of more than ten stored entries is on the screen.
C20_Witness ==
    /\ pc = "wait"
    /\ "history_chart" \in screen
    /\ Len(connection_history) > 10
    /\ connection_history[Len(connection_history)].connections > 0

\* The partition of thread pressure into tiers; hi = -1: no upper end.
PressurePartition ==
    { [name |-> "LIGHT", lo |-> 0, hi |-> 30],
      [name |-> "NORMAL", lo |-> 30, hi |-> 60],
      [name |-> "HEAVY", lo |-> 60, hi |-> -1] }

\* threadsRunning / currentConnections * 100, and 0 without connections
PressureOf(s) ==
    IF s.current_connections > 0
    THEN [n |-> s.threads_running * 100, d |-> s.current_connections]
    ELSE [n |-> 0, d |-> 1]

\* The two cascades of the table, applied to a snapshot, give the tier of
\* the partition: LIGHT, NORMAL, HEAVY by thread pressure, and EXCELLENT for
\* no aborted connect, NORMAL for 1..9, ABNORMAL from 10 up.
TiersFollowPartition(s) ==
    /\ \A t \in PressurePartition :
         threads_tier(PressureOf(s)).status = t.name <=> InTier(PressureOf(s), t)
    /\ aborted_tier(s.aborted_connects).status = "EXCELLENT" <=> s.aborted_connects = 0
    /\ aborted_tier(s.aborted_connects).status = "NORMAL"
          <=> s.aborted_connects \in 1..9
    /\ aborted_tier(s.aborted_connects).status = "ABNORMAL" <=> s.aborted_connects >= 10

\* C21: in the frame of a snapshot with DbStats the statistics table is on
\* the screen with its Running Threads row and its Aborted Connects row,
\* and the tiers of the two rows are those of the partitions: thread
\* pressure [0,30) LIGHT, [30,60) NORMAL, [60,inf) HEAVY; aborted connects
\* 0 EXCELLENT, 1..9 NORMAL, 10 and more ABNORMAL.
C21_TableTiers ==
    (FrameDone /\ Has(stats, "current_connections")) =>
        LET drawn == render(stats, connection_history, term.h, term.w).drawn IN
        /\ \E i \in DOMAIN drawn :
             drawn[i].sec = "stats_table" /\ drawn[i].txt = "running"
        /\ \E i \in DOMAIN drawn :
             drawn[i].sec = "stats_table" /\ drawn[i].txt = "aborted"
        /\ TiersFollowPartition(stats)

\* What holds of the two cascades as they are written, whether or not the
\* table is reached.
C21_CascadesAsWritten ==
    Has(stats, "current_connections") => TiersFollowPartition(stats)

\* C22: a cycle enters the handler straight from its sample or its frame,
\* never from the wait phase; the pause of the handler is 2 seconds, less
\* than a wait phase, reads no key and takes no sample; after it the loop
\* is at its entry, where one key is read and the next sample starts (or
\* the loop stops on the quit key): no turn of the wait loop lies between
\* an error and the next sample.
C22_ErrorPathSkipsWait ==
    [][ /\ (pc' = "except" /\ pc # "except") => pc \in {"query", "draw"}
        /\ pc = "except" =>
              /\ pc' \in {"while", "stopped"}
              /\ pc' = "stopped" => stop_reason' = "interrupt_uncaught"
              /\ UNCHANGED <<key, is_running, poll, now, stats, screen>>
              /\ gap_ms(pc) = 2000
              /\ gap_ms(pc) < gap_ms("wait")
        /\ (pc = "while" /\ is_running /\ pc' # "stopped") =>
              /\ pc' = "get_stats"
              /\ poll' = poll
      ]_vars

\* C22 witness: two cycles in a row ended in the handler, the second sample
\* taken right after the pause of the first.
C22_Witness ==
    /\ pc = "except"
    /\ now = 2
    /\ Len(db_log) = 2
    /\ exc = "AttributeError"
    /\ poll = 0

====
